---------------------------- MODULE Spec2Model ----------------------------
(***************************************************************************)
(* Model of opentelemetry.instrumentation.peewee: the wrappers installed   *)
(* on peewee.Database (connect, execute_sql, close), the telemetry they    *)
(* emit, and the PeeweeInstrumentor that installs and removes them.        *)
(*                                                                         *)
(* Text is modelled as sequences of lexemes (strings): a SQL text is a     *)
(* record [body, comments] where body is the caller's lexeme sequence and  *)
(* comments the sequence of structured comments appended to it; a class    *)
(* name is a sequence of characters.                                       *)
(*                                                                         *)
(* A function value of the operation table is the sequence of wrapper      *)
(* layers around the true original, outermost first: <<>> is the true      *)
(* original, <<w>> a wrapper whose captured original is the true original, *)
(* <<w2, w1>> a wrapper of a wrapper.                                      *)
(***************************************************************************)
EXTENDS Integers, Sequences, FiniteSets, TLC

\* ------------------------------------------------------------- bounds

\* Number of connect/execute_sql/close calls in one behaviour.
MaxCalls == 2

\* Number of fragments a class name given to the vendor classifier is made of.
MaxParts == 2

\* Number of lexemes of a SQL text given to _get_operation_name on its own.
MaxLexemes == 4

\* Number of wrapper invocations the threads make, all threads together.
MaxJobs == 3

\* ---------------------------------------------------- python helpers

None == "None"

\* Last value stored under key k in a sequence of <<key, value>> pairs
\* (a dict filled by successive assignments); <<>> when k was never stored.
RECURSIVE Lookup(_, _)
Lookup(pairs, k) ==
    IF pairs = <<>> THEN <<>>
    ELSE LET n == Len(pairs) IN
         IF pairs[n][1] = k THEN <<pairs[n][2]>>
         ELSE Lookup(SubSeq(pairs, 1, n - 1), k)

\* dict.get(key, default)
Get(d, k, default) == IF Lookup(d, k) = <<>> THEN default ELSE Lookup(d, k)[1]

\* str.lower() on the characters a class name is made of
Lower(c) ==
    CASE c = "A" -> "a" [] c = "B" -> "b" [] c = "C" -> "c" [] c = "D" -> "d"
      [] c = "E" -> "e" [] c = "G" -> "g" [] c = "I" -> "i" [] c = "L" -> "l"
      [] c = "M" -> "m" [] c = "O" -> "o" [] c = "P" -> "p" [] c = "Q" -> "q"
      [] c = "R" -> "r" [] c = "S" -> "s" [] c = "T" -> "t" [] c = "Y" -> "y"
      [] OTHER -> c

LowerStr(s) == [i \in 1..Len(s) |-> Lower(s[i])]

\* `sub in s` for strings
Contains(sub, s) ==
    \E i \in 0..(Len(s) - Len(sub)) : SubSeq(s, i + 1, i + Len(sub)) = sub

\* --------------------------------------------------------- the handles

SqliteDatabase == <<"S","q","l","i","t","e","D","a","t","a","b","a","s","e">>
MySQLDatabase == <<"M","y","S","Q","L","D","a","t","a","b","a","s","e">>
CockroachDatabase ==
    <<"C","o","c","k","r","o","a","c","h","D","a","t","a","b","a","s","e">>

\* Database handles owned by the caller: the class name, the peewee base
\* class (for isinstance), the database name and the connect params.
Handles == {"h1", "h2", "h3"}

Handle(h) ==
    CASE h = "h1" -> [class |-> SqliteDatabase, isa |-> "SqliteDatabase",
                      database |-> ":memory:",
                      connect_params |-> <<>>]
      [] h = "h2" -> [class |-> MySQLDatabase, isa |-> "MySQLDatabase",
                      database |-> "shop",
                      connect_params |-> <<<<"host", "db.local">>,
                                           <<"user", "app">>,
                                           <<"port", 3307>>>>]
      [] h = "h3" -> [class |-> CockroachDatabase, isa |-> "PostgresqlDatabase",
                      database |-> "bank",
                      connect_params |-> <<<<"host", "crdb.local">>>>]

\* SQL texts the callers pass: lexemes, whitespace being the lexeme " ".
SqlSelect == <<"SELECT", " ", "1">>
SqlHinted == <<"/*", "hint", "*/", " ", "UPDATE", " ", "t">>
SqlEmpty == <<>>
SqlSamples == {SqlSelect, SqlHinted, SqlEmpty}

\* A text as the caller passes it: no structured comment appended yet.
Text(body) == [body |-> body, comments |-> <<>>]

\* Exceptions the original operations raise.
ErrLocked == [type |-> "OperationalError", msg |-> "database is locked"]
Exceptions == {ErrLocked}
ValueError == [type |-> "ValueError", msg |-> ""]
IndexError == [type |-> "IndexError", msg |-> "list index out of range"]
AttributeError == [type |-> "AttributeError", msg |-> "original_connect"]

\* peewee's own refusal to connect a handle that is already open
ErrAlreadyOpened ==
    [type |-> "OperationalError", msg |-> "Connection already opened."]

\* What the original operation does when reached: <<>> returns, <<e>> raises e.
Outcomes == {<<>>} \cup {<<e>> : e \in Exceptions}


\* ------------------------------------------------- results of a call

\* A call either returns a value or raises: exc is <<>> or <<e>>.
Return(v) == [exc |-> <<>>, value |-> v]
Raise(e) == [exc |-> <<e>>, value |-> None]
Raised(r) == r.exc # <<>>

\* ------------------------------------------------- attribute extractor

DefaultPort == 3306

_get_attributes_from_connect_params(params) ==
    LET host == Lookup(params, "host")
        user == Lookup(params, "user")
        port == Lookup(params, "port")
        attrs == (IF host # <<>> THEN <<<<"net.host.name", host[1]>>>> ELSE <<>>)
                 \o (IF user # <<>> THEN <<<<"db.user", user[1]>>>> ELSE <<>>)
                 \o <<<<"net.host.port",
                        IF port # <<>> THEN port[1] ELSE DefaultPort>>>>
    IN  [attrs |-> attrs, found |-> host # <<>>]

\* isinstance(sql, str): a text is a record with a body
IsStr(sql) == "body" \in DOMAIN sql

\* The lexemes of a text, each appended comment being one " /*...*/" run.
RECURSIVE RenderComments(_)
RenderComments(comments) ==
    IF comments = <<>> THEN <<>>
    ELSE <<" ", "/*", "kv", "*/">> \o RenderComments(Tail(comments))

Render(sql) == sql.body \o RenderComments(sql.comments)

\* The white-space lexemes: a blank and a line break
Whitespace == {" ", "\n"}

\* re.compile(r'^/\*.*?\*/').sub("", sql): the shortest leading block comment;
\* `.` matches no line break, so a comment with a line break in it is not
\* matched and the text is left as it is.
StripLeadingComment(s) ==
    IF Len(s) >= 2 /\ s[1] = "/*" /\ (\E j \in 2..Len(s) : s[j] = "*/")
    THEN LET j == CHOOSE k \in 2..Len(s) :
                     /\ s[k] = "*/"
                     /\ \A m \in 2..(k - 1) : s[m] # "*/"
         IN  IF \E m \in 2..(j - 1) : s[m] = "\n" THEN s
             ELSE SubSeq(s, j + 1, Len(s))
    ELSE s

\* str.split(): the whitespace-delimited tokens, each a sequence of lexemes
RECURSIVE Split(_)
Split(s) ==
    IF s = <<>> THEN <<>>
    ELSE IF Head(s) \in Whitespace THEN Split(Tail(s))
    ELSE LET stop == IF \E i \in 1..Len(s) : s[i] \in Whitespace
                     THEN (CHOOSE i \in 1..Len(s) :
                               /\ s[i] \in Whitespace
                               /\ \A m \in 1..(i - 1) : s[m] \notin Whitespace)
                     ELSE Len(s) + 1
         IN  <<SubSeq(s, 1, stop - 1)>> \o Split(SubSeq(s, stop, Len(s)))

\* _get_operation_name taking the first token without stripping a leading
\* comment
_get_operation_name_KeepsComment(vendor, db_name, sql) ==
    LET tokens == IF IsStr(sql) THEN Split(Render(sql)) ELSE <<>>
        name == IF db_name # "" /\ db_name # None THEN <<<<db_name>>>> ELSE <<>>
    IN  IF IsStr(sql) /\ tokens = <<>> THEN Raise(IndexError)
        ELSE LET parts == (IF IsStr(sql) THEN <<tokens[1]>> ELSE <<>>) \o name
             IN  IF parts = <<>> THEN Return(<<<<vendor>>>>)
                 ELSE Return(parts)

\* The operation name is the sequence of its parts, joined by one space.
_get_operation_name(vendor, db_name, sql) ==
    LET tokens == IF IsStr(sql) THEN Split(StripLeadingComment(Render(sql)))
                  ELSE <<>>
        name == IF db_name # "" /\ db_name # None THEN <<<<db_name>>>> ELSE <<>>
    IN  IF IsStr(sql) /\ tokens = <<>> THEN Raise(IndexError)
        ELSE LET parts == (IF IsStr(sql) THEN <<tokens[1]>> ELSE <<>>) \o name
             IN  IF parts = <<>> THEN Return(<<<<vendor>>>>)
                 ELSE Return(parts)

\* --------------------------------------------------- vendor classifier

\* _normalize_vendor looking for "mysql" before "sqlite"
_normalize_vendor_MysqlFirst(vendor) ==
    IF Contains(<<"m","y","s","q","l">>, LowerStr(vendor))
    THEN Return("mysql")
    ELSE IF Contains(<<"s","q","l","i","t","e">>, LowerStr(vendor))
    THEN Return("sqlite")
    ELSE IF Contains(<<"p","o","s","t","g","r","e","s","q","l">>, LowerStr(vendor))
    THEN Return("postgresql")
    ELSE Raise(ValueError)

_normalize_vendor(vendor) ==
    IF Contains(<<"s","q","l","i","t","e">>, LowerStr(vendor))
    THEN Return("sqlite")
    ELSE IF Contains(<<"m","y","s","q","l">>, LowerStr(vendor))
    THEN Return("mysql")
    ELSE IF Contains(<<"p","o","s","t","g","r","e","s","q","l">>, LowerStr(vendor))
    THEN Return("postgresql")
    ELSE Raise(ValueError)

\* ------------------------------------------------------------ the span
\* The tracing SDK's span as the wrappers use it.  calls is the log of the
\* methods called on the span; attrs, status and events are what a
\* recording span keeps of them.  A tracer provider is either "okFinal"
\* (a status of OK is final: later set_status calls are ignored, as the
\* OpenTelemetry API asks of a span) or "lastWins" (each set_status
\* overwrites the status).

_get_tracer(tracer_provider) ==
    [okFinal |-> (IF tracer_provider = None THEN "okFinal"
                  ELSE tracer_provider) = "okFinal"]

start_span(tracer, id, name, kind, recording) ==
    [id |-> id, name |-> name, kind |-> kind, recording |-> recording,
     okFinal |-> tracer.okFinal, calls |-> <<>>, attrs |-> <<>>,
     status |-> [code |-> "UNSET", desc |-> <<>>], events |-> <<>>,
     ended |-> FALSE]

\* span.is_recording(): the value is span.recording, the call is logged
is_recording(span) == [span EXCEPT !.calls = Append(@, "is_recording")]

set_attribute(span, key, value) ==
    [span EXCEPT !.calls = Append(@, "set_attribute"),
                 !.attrs = IF span.recording THEN Append(@, <<key, value>>)
                           ELSE @]

set_attributes(span, attrs) ==
    [span EXCEPT !.calls = Append(@, "set_attributes"),
                 !.attrs = IF span.recording THEN @ \o attrs ELSE @]

set_status(span, code, desc) ==
    [span EXCEPT !.calls = Append(@, "set_status"),
                 !.status = IF ~span.recording THEN @
                            ELSE IF span.okFinal /\ @.code = "OK" THEN @
                            ELSE [code |-> code, desc |-> desc]]

record_exception(span, exc) ==
    [span EXCEPT !.calls = Append(@, "record_exception"),
                 !.events = IF span.recording THEN Append(@, exc) ELSE @]

\* str(exc)
StrExc(exc) == <<exc.msg>>

\* Leaving `with trace.use_span(span, end_on_exit=True)` or
\* `with tracer.start_as_current_span(...)`: an exception passing through is
\* recorded on a recording span and sets its status (the managers' defaults
\* record_exception and set_status_on_exception), then the span is ended.
use_span_exit(span, exc) ==
    LET s1 == IF exc = <<>> THEN span ELSE is_recording(span)
        s2 == IF exc # <<>> /\ span.recording
              THEN set_status(record_exception(s1, exc[1]), "ERROR",
                              <<exc[1].type, ": ", exc[1].msg>>)
              ELSE s1
    IN  [s2 EXCEPT !.ended = TRUE, !.calls = Append(@, "end")]

\* The current-span context of a thread: the spans made current and not yet
\* detached, innermost last.  INVALID_SPAN is what the context gives when no
\* span is current; CallerSpan is a span the caller itself made current.
INVALID_SPAN == [call |-> 0, layer |-> 0]

CallerSpan == [call |-> 0, layer |-> 1]

Contexts == {<<>>, <<CallerSpan>>}

\* Entering `with trace.use_span(span, ...)`: span becomes the current span
use_span_enter(context, span) == Append(context, span.id)

\* trace.get_current_span() in a context
get_current_span(context) ==
    IF context = <<>> THEN INVALID_SPAN ELSE context[Len(context)]

\* The context inside the block of line 140, where lines 141-186 run, taken
\* as if the block were not entered
ExecuteContext_Outside(env, span) == env.context

\* The context inside the block of line 140, where lines 141-186 run
ExecuteContext(env, span) == use_span_enter(env.context, span)

\* ----------------------------------------------- SQL comment injector

PeeweeVersion == "peewee:3"

\* Trace-context values of the current span: none when no span is current
_get_opentelemetry_values(current) ==
    IF current = INVALID_SPAN THEN <<>> ELSE <<<<"traceparent", current>>>>

RECURSIVE FilterData(_, _)
FilterData(data, commenter_options) ==
    IF data = <<>> THEN <<>>
    ELSE (IF Get(commenter_options, Head(data)[1], TRUE)
          THEN <<Head(data)>> ELSE <<>>)
         \o FilterData(Tail(data), commenter_options)

\* _get_commenter_data without the filter of lines 97-101
_get_commenter_data_Unfiltered(self, commenter_options, current) ==
    LET base == <<<<"db_driver", Handle(self).class>>,
                  <<"db_framework", PeeweeVersion>>>>
    IN  IF Get(commenter_options, "opentelemetry_values", TRUE)
        THEN base \o _get_opentelemetry_values(current)
        ELSE base

_get_commenter_data(self, commenter_options, current) ==
    LET base == <<<<"db_driver", Handle(self).class>>,
                  <<"db_framework", PeeweeVersion>>>>
        data == IF Get(commenter_options, "opentelemetry_values", TRUE)
                THEN base \o _get_opentelemetry_values(current)
                ELSE base
    IN  FilterData(data, commenter_options)

\* Appends one trailing structured comment carrying the key-value pairs.
_add_sql_comment(sql, commenter_data) ==
    [sql EXCEPT !.comments = Append(@, commenter_data)]

\* str(sql)
Str(sql) == IF IsStr(sql) THEN sql ELSE Text(<<sql.repr>>)

RECURSIVE SetAll(_, _)
SetAll(span, attrs) ==
    IF attrs = <<>> THEN span
    ELSE SetAll(set_attribute(span, Head(attrs)[1], Head(attrs)[2]),
                Tail(attrs))

_set_db_client_span_attributes(vendor, span, sql, attrs) ==
    SetAll(set_attribute(set_attribute(span, "db.statement", sql),
                         "db.system", vendor),
           attrs)

\* -------------------------------------------------- interception layer
\* What one call did: how it ended (exc, value), the spans it finished (in
\* the order they ended), the histogram samples and counter additions it
\* made, and the arguments the true original operation received.

Effect(exc, value, spans, samples, usage, sent) ==
    [exc |-> exc, value |-> value, spans |-> spans, samples |-> samples,
     usage |-> usage, sent |-> sent, ctx |-> <<>>]

\* The effect of a call that ran inside the block of span: the span is
\* attached to the current context before and detached after, ctx being the
\* changes of the current context in the order they were made.
Scoped(span, effect) ==
    [effect EXCEPT !.ctx = <<[do |-> "attach", span |-> span.id]>> \o @
                           \o <<[do |-> "detach", span |-> span.id]>>]

\* An exception leaving the wrapper before any telemetry was produced
Propagate(exc) == Effect(exc, None, <<>>, <<>>, <<>>, <<>>)

\* The true peewee.Database operations: env.outcome says whether the driver
\* returns or raises, env.open whether the handle's connection is open.
\* What the operation received and how it ended is kept in sent.
Original(op, self, args, r) ==
    Effect(r.exc, r.value, <<>>, <<>>, <<>>,
           <<[op |-> op, self |-> self, args |-> args,
              exc |-> r.exc, value |-> r.value]>>)

peewee_execute_sql(self, args, env) ==
    Original("execute_sql", self, args,
             IF env.outcome = <<>> THEN Return("cursor")
             ELSE Raise(env.outcome[1]))

\* connect opens the connection and returns True; on an open handle it
\* returns False when reuse_if_open is given and raises otherwise.
peewee_connect(self, reuse_if_open, env) ==
    Original("connect", self, reuse_if_open,
             IF env.open
             THEN (IF reuse_if_open THEN Return("False")
                   ELSE Raise(ErrAlreadyOpened))
             ELSE IF env.outcome = <<>> THEN Return("True")
             ELSE Raise(env.outcome[1]))

\* close returns whether a connection was open; the handle is closed
\* afterwards, also when closing the driver's connection raised.
peewee_close(self, env) ==
    Original("close", self, <<>>,
             IF ~env.open THEN Return("False")
             ELSE IF env.outcome = <<>> THEN Return("True")
             ELSE Raise(env.outcome[1]))

_get_connection_string(database) ==
    LET db == Handle(database)
        host == Lookup(db.connect_params, "host")
        port == Lookup(db.connect_params, "port")
        drivername == CASE db.isa = "SqliteDatabase" -> "sqlite"
                        [] db.isa = "MySQLDatabase" -> "mysql"
                        [] db.isa = "PostgresqlDatabase" -> "postgresql"
                        [] OTHER -> ""
    IN  <<drivername, "://", IF host # <<>> THEN host[1] ELSE None, ":",
          IF port # <<>> THEN port[1] ELSE DefaultPort, "/", db.database>>

_get_attributes_from_database(database) ==
    <<<<"pool.name", _get_connection_string(database)>>>>

\* active_connections.add(value, attributes)
_add_used_to_connection_usage(database, value) ==
    [value |-> value,
     attributes |-> _get_attributes_from_database(database)
                    \o <<<<"state", "used">>>>]

RECURSIVE CallExecuteSql(_, _, _, _)
RECURSIVE CallConnect(_, _, _, _)
RECURSIVE CallClose(_, _, _)

\* Lines 141-145: the attributes of a recording span
ExecuteRecordingBlock(span, vendor, sql, attrs) ==
    IF span.recording
    THEN SetAll(set_attribute(set_attribute(is_recording(span),
                                            "db.statement", sql),
                              "db.system", vendor),
                attrs)
    ELSE is_recording(span)

\* ExecuteCommenterBlock with the two orders exchanged between the branches
ExecuteCommenterBlock_Swapped(w, self, span, vendor, sql, attrs, context) ==
    IF w.enable_sqlcommenter
    THEN LET commenter_data ==
                 _get_commenter_data(self, w.commenter_options,
                                     get_current_span(context))
         IN  IF ~w.enable_attribute_commenter
             THEN LET commented == _add_sql_comment(Str(sql), commenter_data)
                  IN  [span |-> _set_db_client_span_attributes(
                                    vendor, span, commented, attrs),
                       sql |-> commented]
             ELSE [span |-> _set_db_client_span_attributes(
                                vendor, span, sql, attrs),
                   sql |-> _add_sql_comment(sql, commenter_data)]
    ELSE [span |-> span, sql |-> sql]

\* Lines 146-165: comment injection; gives the span and the sql to execute
ExecuteCommenterBlock(w, self, span, vendor, sql, attrs, context) ==
    IF w.enable_sqlcommenter
    THEN LET commenter_data ==
                 _get_commenter_data(self, w.commenter_options,
                                     get_current_span(context))
         IN  IF w.enable_attribute_commenter
             THEN LET commented == _add_sql_comment(Str(sql), commenter_data)
                  IN  [span |-> _set_db_client_span_attributes(
                                    vendor, span, commented, attrs),
                       sql |-> commented]
             ELSE [span |-> _set_db_client_span_attributes(
                                vendor, span, sql, attrs),
                   sql |-> _add_sql_comment(sql, commenter_data)]
    ELSE [span |-> span, sql |-> sql]

\* ExecuteTryBlock with the duration recorded after the call instead of in a
\* finally block: an exception skips it.
ExecuteTryBlock_NoFinally(original_execute, self, args, env, span, sql, duration_attrs) ==
    LET s1 == IF span.recording
              THEN set_status(is_recording(span), "OK", <<>>)
              ELSE is_recording(span)
        inner == CallExecuteSql(original_execute, self,
                                [args EXCEPT !.sql = sql], env)
        s2 == IF Raised(inner)
              THEN set_status(record_exception(s1, inner.exc[1]), "ERROR",
                              StrExc(inner.exc[1]))
              ELSE s1
        sample == [attributes |-> duration_attrs]
    IN  Effect(inner.exc, inner.value,
               inner.spans \o <<use_span_exit(s2, inner.exc)>>,
               IF Raised(inner) THEN inner.samples
               ELSE inner.samples \o <<sample>>,
               inner.usage, inner.sent)

\* ExecuteTryBlock with the duration recorded in the except block as well as
\* in the finally block.
ExecuteTryBlock_RecordTwice(original_execute, self, args, env, span, sql, duration_attrs) ==
    LET s1 == IF span.recording
              THEN set_status(is_recording(span), "OK", <<>>)
              ELSE is_recording(span)
        inner == CallExecuteSql(original_execute, self,
                                [args EXCEPT !.sql = sql], env)
        s2 == IF Raised(inner)
              THEN set_status(record_exception(s1, inner.exc[1]), "ERROR",
                              StrExc(inner.exc[1]))
              ELSE s1
        sample == [attributes |-> duration_attrs]
    IN  Effect(inner.exc, inner.value,
               inner.spans \o <<use_span_exit(s2, inner.exc)>>,
               IF Raised(inner) THEN inner.samples \o <<sample, sample>>
               ELSE inner.samples \o <<sample>>,
               inner.usage, inner.sent)

\* Lines 166-186: the call of the original, its status and the duration
ExecuteTryBlock(original_execute, self, args, env, span, sql, duration_attrs) ==
    LET s1 == IF span.recording
              THEN set_status(is_recording(span), "OK", <<>>)
              ELSE is_recording(span)
        inner == CallExecuteSql(original_execute, self,
                                [args EXCEPT !.sql = sql], env)
        s2 == IF Raised(inner)
              THEN set_status(record_exception(s1, inner.exc[1]), "ERROR",
                              StrExc(inner.exc[1]))
              ELSE s1
        sample == [attributes |-> duration_attrs]
    IN  Effect(inner.exc, inner.value,
               inner.spans \o <<use_span_exit(s2, inner.exc)>>,
               inner.samples \o <<sample>>, inner.usage, inner.sent)

\* execute_sql building the duration attributes after the commenter block,
\* from the text that block produced
execute_sql_TagsAfterCommenter(w, original_execute, self, args, env) ==
    LET database == Handle(self).database
        v == _normalize_vendor(Handle(self).class)
    IN  IF Raised(v) THEN Propagate(v.exc)
        ELSE
        LET vendor == v.value
            ap == _get_attributes_from_connect_params(
                      Handle(self).connect_params)
            attrs == ap.attrs \o (IF database # None
                                  THEN <<<<"db.name", database>>>> ELSE <<>>)
            nm == _get_operation_name(vendor, database, args.sql)
        IN  IF Raised(nm) THEN Propagate(nm.exc)
            ELSE
            LET span == start_span(w.tracer,
                                   [call |-> env.call,
                                    layer |-> Len(original_execute)],
                                   nm.value, "CLIENT", env.recording)
                host == Lookup(attrs, "net.host.name")
                inside == ExecuteContext(env, span)
                s1 == ExecuteRecordingBlock(span, vendor, args.sql, attrs)
                c == ExecuteCommenterBlock(w, self, s1, vendor, args.sql, attrs,
                                           inside)
                duration_attrs ==
                    <<<<"db.system.name", vendor>>,
                      <<"db.query.text", c.sql>>>>
                    \o (IF host # <<>>
                        THEN <<<<"db.server.address", host[1]>>>> ELSE <<>>)
            IN  Scoped(span,
                       ExecuteTryBlock(original_execute, self, args,
                                       [env EXCEPT !.context = inside],
                                       c.span, c.sql, duration_attrs))

\* The wrapper _wrap_execute_sql installs; w holds what its closure captured
execute_sql(w, original_execute, self, args, env) ==
    LET database == Handle(self).database
        v == _normalize_vendor(Handle(self).class)
    IN  IF Raised(v) THEN Propagate(v.exc)
        ELSE
        LET vendor == v.value
            ap == _get_attributes_from_connect_params(
                      Handle(self).connect_params)
            attrs == ap.attrs \o (IF database # None
                                  THEN <<<<"db.name", database>>>> ELSE <<>>)
            nm == _get_operation_name(vendor, database, args.sql)
        IN  IF Raised(nm) THEN Propagate(nm.exc)
            ELSE
            LET span == start_span(w.tracer,
                                   [call |-> env.call,
                                    layer |-> Len(original_execute)],
                                   nm.value, "CLIENT", env.recording)
                host == Lookup(attrs, "net.host.name")
                duration_attrs ==
                    <<<<"db.system.name", vendor>>,
                      <<"db.query.text", args.sql>>>>
                    \o (IF host # <<>>
                        THEN <<<<"db.server.address", host[1]>>>> ELSE <<>>)
                inside == ExecuteContext(env, span)
                s1 == ExecuteRecordingBlock(span, vendor, args.sql, attrs)
                c == ExecuteCommenterBlock(w, self, s1, vendor, args.sql, attrs,
                                           inside)
            IN  Scoped(span,
                       ExecuteTryBlock(original_execute, self, args,
                                       [env EXCEPT !.context = inside],
                                       c.span, c.sql, duration_attrs))

CallExecuteSql(f, self, args, env) ==
    IF f = <<>> THEN peewee_execute_sql(self, args, env)
    ELSE execute_sql(Head(f), Tail(f), self, args, env)

\* ConnectTryBlock adding to the usage counter in a finally block: also when
\* the original connect raised.
ConnectTryBlock_CountsInFinally(original_connect, self, reuse_if_open, env, span) ==
    LET inner == CallConnect(original_connect, self, reuse_if_open, env)
        s1 == IF Raised(inner)
              THEN set_status(record_exception(span, inner.exc[1]), "ERROR",
                              StrExc(inner.exc[1]))
              ELSE span
        usage == Append(inner.usage, _add_used_to_connection_usage(self, 1))
    IN  Effect(inner.exc, inner.value,
               inner.spans \o <<use_span_exit(s1, inner.exc)>>,
               inner.samples, usage, inner.sent)

\* Lines 206-218: the call of the original connect and the usage counter
ConnectTryBlock(original_connect, self, reuse_if_open, env, span) ==
    LET inner == CallConnect(original_connect, self, reuse_if_open, env)
        s1 == IF Raised(inner)
              THEN set_status(record_exception(span, inner.exc[1]), "ERROR",
                              StrExc(inner.exc[1]))
              ELSE span
        usage == IF Raised(inner) THEN inner.usage
                 ELSE Append(inner.usage, _add_used_to_connection_usage(self, 1))
    IN  Effect(inner.exc, inner.value,
               inner.spans \o <<use_span_exit(s1, inner.exc)>>,
               inner.samples, usage, inner.sent)

\* The wrapper _wrap_connect installs
connect(w, original_connect, self, reuse_if_open, env) ==
    LET span == start_span(w.tracer,
                           [call |-> env.call, layer |-> Len(original_connect)],
                           <<<<"connect">>>>, "CLIENT", env.recording)
        s1 == is_recording(span)
        v == _normalize_vendor(Handle(self).class)
        s2 == set_attributes(
                  s1, _get_attributes_from_connect_params(
                          Handle(self).connect_params).attrs)
        inside == [env EXCEPT !.context = use_span_enter(env.context, span)]
    IN  Scoped(span,
               IF ~span.recording
               THEN ConnectTryBlock(original_connect, self, reuse_if_open,
                                    inside, s1)
               ELSE IF Raised(v)
               THEN Effect(v.exc, None, <<use_span_exit(s2, v.exc)>>,
                           <<>>, <<>>, <<>>)
               ELSE ConnectTryBlock(original_connect, self, reuse_if_open,
                                    inside,
                                    set_attribute(s2, "db.system", v.value)))

CallConnect(f, self, reuse_if_open, env) ==
    IF f = <<>> THEN peewee_connect(self, reuse_if_open, env)
    ELSE connect(Head(f), Tail(f), self, reuse_if_open, env)

\* close adding -1 to the usage counter before it calls the original: the
\* addition is made also when the original raises.
close_DecrementsFirst(w, original_close, self, env) ==
    LET inner == CallClose(original_close, self, env)
    IN  [inner EXCEPT !.usage =
            <<_add_used_to_connection_usage(self, -1)>> \o @]

\* The wrapper _wrap_close installs
close(w, original_close, self, env) ==
    LET inner == CallClose(original_close, self, env)
    IN  IF Raised(inner) THEN inner
        ELSE [inner EXCEPT !.usage =
                  Append(@, _add_used_to_connection_usage(self, -1))]

CallClose(f, self, env) ==
    IF f = <<>> THEN peewee_close(self, env)
    ELSE close(Head(f), Tail(f), self, env)

\* ------------------------------------------------ lifecycle controller
\* The controller's state: the operation table peewee.Database, the
\* instrumentor's saved originals (<<>> while the attributes are unset), its
\* installed flag, and the exception of the last lifecycle call, if any.

\* Options given to instrument(): a mapping as <<key, value>> pairs
KwargsSamples ==
    { <<>>,
      <<<<"enable_commenter", TRUE>>>>,
      <<<<"enable_commenter", TRUE>>, <<"enable_attribute_commenter", TRUE>>>>,
      <<<<"enable_commenter", TRUE>>,
        <<"commenter_options", <<<<"db_framework", FALSE>>>>>>>>,
      <<<<"tracer_provider", "lastWins">>, <<"enable_commenter", TRUE>>,
        <<"commenter_options", <<<<"opentelemetry_values", FALSE>>,
                                 <<"db_driver", FALSE>>>>>>>>,
      <<<<"tracer_provider", "lastWins">>,
        <<"enable_attribute_commenter", TRUE>>>>,
      <<<<"tracer_provider", "okFinal">>, <<"enable_commenter", FALSE>>>> }

_wrap_execute_sql(original_execute, tracer, enable_sqlcommenter, commenter_options, enable_attribute_commenter) ==
    <<[tracer |-> tracer, enable_sqlcommenter |-> enable_sqlcommenter,
       commenter_options |-> commenter_options,
       enable_attribute_commenter |-> enable_attribute_commenter]>>
    \o original_execute

_wrap_connect(original_connect, tracer) ==
    <<[tracer |-> tracer]>> \o original_connect

_wrap_close(original_close) == <<[counter |-> "usage"]>> \o original_close

\* _instrument saving the operations after installing the wrappers instead
\* of before: the saved "originals" are the wrappers.
_instrument_SavesAfterInstall(L, kwargs) ==
    LET tracer == _get_tracer(Get(kwargs, "tracer_provider", None))
        table == [connect |-> _wrap_connect(L.table.connect, tracer),
                  execute_sql |->
                      _wrap_execute_sql(
                          L.table.execute_sql, tracer,
                          Get(kwargs, "enable_commenter", FALSE),
                          Get(kwargs, "commenter_options", <<>>),
                          Get(kwargs, "enable_attribute_commenter", FALSE)),
                  close |-> _wrap_close(L.table.close)]
    IN  [L EXCEPT !.originals = <<table>>, !.table = table, !.exc = <<>>]

\* _instrument with comment injection on when the option is not given
_instrument_CommenterOnByDefault(L, kwargs) ==
    LET tracer == _get_tracer(Get(kwargs, "tracer_provider", None))
    IN  [L EXCEPT
           !.originals = <<L.table>>,
           !.table = [connect |-> _wrap_connect(L.table.connect, tracer),
                      execute_sql |->
                          _wrap_execute_sql(
                              L.table.execute_sql, tracer,
                              Get(kwargs, "enable_commenter", TRUE),
                              Get(kwargs, "commenter_options", <<>>),
                              Get(kwargs, "enable_attribute_commenter", FALSE)),
                      close |-> _wrap_close(L.table.close)],
           !.exc = <<>>]

\* PeeweeInstrumentor._instrument
_instrument(L, kwargs) ==
    LET tracer == _get_tracer(Get(kwargs, "tracer_provider", None))
        enable_commenter == Get(kwargs, "enable_commenter", FALSE)
        commenter_options == Get(kwargs, "commenter_options", <<>>)
        enable_attribute_commenter ==
            Get(kwargs, "enable_attribute_commenter", FALSE)
    IN  [L EXCEPT
           !.originals = <<L.table>>,
           !.table = [connect |-> _wrap_connect(L.table.connect, tracer),
                      execute_sql |->
                          _wrap_execute_sql(L.table.execute_sql, tracer,
                                            enable_commenter, commenter_options,
                                            enable_attribute_commenter),
                      close |-> _wrap_close(L.table.close)],
           !.exc = <<>>]

\* _uninstrument restoring connect and close but not execute_sql
_uninstrument_KeepsExecute(L) ==
    IF L.originals = <<>> THEN [L EXCEPT !.exc = <<AttributeError>>]
    ELSE [L EXCEPT !.table = [L.originals[1] EXCEPT
                                 !.execute_sql = L.table.execute_sql],
                   !.exc = <<>>]

\* PeeweeInstrumentor._uninstrument
_uninstrument(L) ==
    IF L.originals = <<>> THEN [L EXCEPT !.exc = <<AttributeError>>]
    ELSE [L EXCEPT !.table = L.originals[1], !.exc = <<>>]

\* The entry points: install only when not installed, remove only when
\* installed; otherwise the call does nothing.
instrument(L, kwargs) ==
    IF L.is_instrumented THEN [L EXCEPT !.exc = <<>>]
    ELSE [_instrument(L, kwargs) EXCEPT !.is_instrumented = TRUE]

\* uninstrument without the installed check: _uninstrument always runs
uninstrument_Unguarded(L) ==
    LET r == _uninstrument(L)
    IN  IF r.exc # <<>> THEN r ELSE [r EXCEPT !.is_instrumented = FALSE]

uninstrument(L) ==
    IF L.is_instrumented
    THEN LET r == _uninstrument(L)
         IN  IF r.exc # <<>> THEN r ELSE [r EXCEPT !.is_instrumented = FALSE]
    ELSE [L EXCEPT !.exc = <<>>]

\* ---------------------------------------------------------- the system

VARIABLES
    controller,  \* [table, originals, is_instrumented, exc]
    lifecycle,   \* the lifecycle calls made: see Init
    finished,    \* the finished spans, in the order they ended
    histogram,   \* number of samples of db.client.operation.duration
    usage,       \* db.client.connections.usage, per handle's pool
    nCalls,      \* number of connect/execute_sql/close calls made so far
    last,        \* the last call since the last lifecycle call, and what it did
    opened,      \* per handle: its connection is open
    bare,        \* a connect or close call was made on the unwrapped operation
    shadow,      \* per handle: its connection is open in the run of the same
                 \* calls on peewee without the instrumentation
    probe,       \* a helper function called on its own: [fn, input, output]
    conc         \* threads inside the wrappers, and the spans they started

vars == <<controller, lifecycle, finished, histogram, usage, nCalls, last, opened, bare, shadow, probe, conc>>

TrueOriginals == [connect |-> <<>>, execute_sql |-> <<>>, close |-> <<>>]

NoCall == [op |-> "none", self |-> None, args |-> <<>>, depth |-> 0,
           outcome |-> <<>>, effect |-> Propagate(<<>>),
           plain |-> Propagate(<<>>)]

\* No helper function is called on its own
NoProbe == [fn |-> "none", input |-> <<>>, output |-> <<>>]

InitSystem ==
    /\ controller = [table |-> TrueOriginals, originals |-> <<>>,
                     is_instrumented |-> FALSE, exc |-> <<>>]
    \* last: the last lifecycle call; streak: how many times in a row it was
    \* made (counted to 2); ever: instrument was called; kwargs: the options
    \* of the instrument call that installed the current wrappers
    /\ lifecycle = [last |-> "none", streak |-> 0, ever |-> FALSE,
                    kwargs |-> <<>>]
    /\ finished = <<>>
    /\ histogram = 0
    /\ usage = [h \in Handles |-> 0]
    /\ nCalls = 0
    /\ last = NoCall
    /\ opened = [h \in Handles |-> FALSE]
    /\ bare = FALSE
    /\ shadow = [h \in Handles |-> FALSE]

\* No thread is running
NoThreads == [threads |-> <<>>, spans |-> <<>>]

Init == InitSystem /\ probe = NoProbe /\ conc = NoThreads

Instrument(kwargs) ==
    /\ controller' = instrument(controller, kwargs)
    /\ lifecycle' = [last |-> "instrument",
                     streak |-> IF lifecycle.last = "instrument" THEN 2 ELSE 1,
                     ever |-> TRUE,
                     kwargs |-> IF controller.is_instrumented
                                THEN lifecycle.kwargs ELSE kwargs]
    /\ last' = NoCall
    /\ UNCHANGED <<finished, histogram, usage, nCalls, opened, bare, shadow, probe, conc>>

Uninstrument ==
    /\ controller' = uninstrument(controller)
    /\ lifecycle' = [last |-> "uninstrument",
                     streak |-> IF lifecycle.last = "uninstrument" THEN 2 ELSE 1,
                     ever |-> lifecycle.ever,
                     kwargs |-> <<>>]
    /\ last' = NoCall
    /\ UNCHANGED <<finished, histogram, usage, nCalls, opened, bare, shadow, probe, conc>>

RECURSIVE SumFor(_, _)
SumFor(adds, h) ==
    IF adds = <<>> THEN 0
    ELSE (IF Head(adds).attributes[1] = _get_attributes_from_database(h)[1]
          THEN Head(adds).value ELSE 0) + SumFor(Tail(adds), h)

\* What the exporter keeps of a finished span
Summary(span) == [call |-> span.id.call, name |-> span.name, kind |-> span.kind]

Summaries(spans) == [i \in 1..Len(spans) |-> Summary(spans[i])]

\* The bookkeeping of one call: the telemetry goes to the exporter and the
\* instruments, the call is remembered.
\* The handle after the call: the true connect, when it returns, leaves it
\* open; the true close, however it ends, leaves it closed.
HandleAfter(op, before, effect) ==
    IF effect.sent = <<>> THEN before
    ELSE CASE op = "connect" -> before \/ ~Raised(effect.sent[1])
           [] op = "close" -> FALSE
           [] OTHER -> before

\* outcome: how the true original ended when the call reached it; plain:
\* what the same call does on peewee without the instrumentation
Record(op, self, args, depth, outcome, effect, plain) ==
    /\ finished' = finished \o Summaries(effect.spans)
    /\ histogram' = histogram + Len(effect.samples)
    /\ usage' = [h \in Handles |-> usage[h] + SumFor(effect.usage, h)]
    /\ nCalls' = nCalls + 1
    /\ last' = [op |-> op, self |-> self, args |-> args, depth |-> depth,
                outcome |-> IF effect.sent = <<>> THEN outcome
                            ELSE effect.sent[1].exc,
                effect |-> effect, plain |-> plain]
    /\ opened' = [opened EXCEPT ![self] = HandleAfter(op, @, effect)]
    /\ shadow' = [shadow EXCEPT ![self] = HandleAfter(op, @, plain)]
    /\ bare' = (bare \/ (depth = 0 /\ op # "execute_sql"))
    /\ UNCHANGED <<controller, lifecycle, probe, conc>>

Env(self, outcome, recording) ==
    [call |-> nCalls + 1, outcome |-> outcome, recording |-> recording,
     open |-> opened[self], context |-> <<>>]

\* The same driver for the run without the instrumentation
PlainEnv(self, outcome) ==
    [call |-> nCalls + 1, outcome |-> outcome, recording |-> FALSE,
     open |-> shadow[self], context |-> <<>>]

Connect(self, reuse_if_open, outcome, recording) ==
    /\ nCalls < MaxCalls
    /\ Record("connect", self, reuse_if_open, Len(controller.table.connect),
              outcome,
              CallConnect(controller.table.connect, self, reuse_if_open,
                          Env(self, outcome, recording)),
              peewee_connect(self, reuse_if_open, PlainEnv(self, outcome)))

ExecuteSql(self, sql, outcome, recording) ==
    /\ nCalls < MaxCalls
    /\ LET args == [sql |-> Text(sql), params |-> None, commit |-> "SENTINEL"]
       IN  Record("execute_sql", self, args,
                  Len(controller.table.execute_sql), outcome,
                  CallExecuteSql(controller.table.execute_sql, self, args,
                                 Env(self, outcome, recording)),
                  peewee_execute_sql(self, args, PlainEnv(self, outcome)))

Close(self, outcome) ==
    /\ nCalls < MaxCalls
    /\ Record("close", self, <<>>, Len(controller.table.close), outcome,
              CallClose(controller.table.close, self,
                        Env(self, outcome, FALSE)),
              peewee_close(self, PlainEnv(self, outcome)))

Next ==
    \/ \E kwargs \in KwargsSamples : Instrument(kwargs)
    \/ Uninstrument
    \/ \E self \in Handles, reuse_if_open \in BOOLEAN, outcome \in Outcomes,
          recording \in BOOLEAN :
           Connect(self, reuse_if_open, outcome, recording)
    \/ \E self \in Handles, sql \in SqlSamples, outcome \in Outcomes,
          recording \in BOOLEAN :
           ExecuteSql(self, sql, outcome, recording)
    \/ \E self \in Handles, outcome \in Outcomes : Close(self, outcome)

Spec == Init /\ [][Next]_vars

\* ------------------------------------- the helper functions on their own

system == <<controller, lifecycle, finished, histogram, usage, nCalls, last, opened, bare, shadow>>

\* A helper function about to be called with input x
Call(fn, x) == [fn |-> fn, input |-> x, output |-> <<>>]

\* Class names: up to MaxParts fragments, in any order, one after the other
Fragments ==
    { <<"S","q","l","i","t","e">>, <<"M","y","S","Q","L">>,
      <<"P","o","s","t","g","r","e","s","q","l">>,
      <<"p","o","s","t","g","r","e">>, <<"m","y">>, <<"s","q","l">>,
      <<"D","b">> }

RECURSIVE Flatten(_)
Flatten(parts) ==
    IF parts = <<>> THEN <<>> ELSE Head(parts) \o Flatten(Tail(parts))

ClassNames ==
    { Flatten(parts) : parts \in UNION { [1..n -> Fragments] : n \in 0..MaxParts } }

VendorInit ==
    /\ InitSystem /\ conc = NoThreads
    /\ probe \in { Call("_normalize_vendor", name) : name \in ClassNames }

Classify ==
    /\ probe.fn = "_normalize_vendor" /\ probe.output = <<>>
    /\ probe' = [probe EXCEPT !.output = <<_normalize_vendor(probe.input)>>]
    /\ UNCHANGED <<system, conc>>

VendorSpec == VendorInit /\ [][Classify]_vars

\* SQL arguments: texts of up to MaxLexemes lexemes, and a value that is not
\* a text
Lexemes == {"/*", "*/", " ", "\n", "SELECT", "t"}

NotText == [repr |-> "Query"]

SqlArguments ==
    { Text(body) : body \in UNION { [1..n -> Lexemes] : n \in 0..MaxLexemes } }
    \cup {NotText}

DbNames == {"shop", "", None}

NameInit ==
    /\ InitSystem /\ conc = NoThreads
    /\ probe \in { Call("_get_operation_name",
                         [vendor |-> "mysql", db_name |-> n, sql |-> q]) :
                    n \in DbNames, q \in SqlArguments }

Name ==
    /\ probe.fn = "_get_operation_name" /\ probe.output = <<>>
    /\ probe' = [probe EXCEPT !.output =
                     <<_get_operation_name(probe.input.vendor,
                                           probe.input.db_name,
                                           probe.input.sql)>>]
    /\ UNCHANGED <<system, conc>>

NameSpec == NameInit /\ [][Name]_vars

\* The commenter options: each of the four keys absent, true or false
OptionKeys ==
    <<"db_driver", "db_framework", "opentelemetry_values", "traceparent">>

RECURSIVE OptionsOf(_, _, _)
OptionsOf(keys, given, val) ==
    IF keys = <<>> THEN <<>>
    ELSE (IF Head(keys) \in given THEN <<<<Head(keys), val[Head(keys)]>>>>
          ELSE <<>>)
         \o OptionsOf(Tail(keys), given, val)

KeySet == {OptionKeys[i] : i \in 1..Len(OptionKeys)}

CommenterOptions ==
    { OptionsOf(OptionKeys, given, val) :
          given \in SUBSET KeySet, val \in [KeySet -> BOOLEAN] }

CommenterInit ==
    /\ InitSystem /\ conc = NoThreads
    /\ probe \in { Call("_get_commenter_data",
                         [self |-> h, commenter_options |-> o,
                          current |-> [call |-> 1, layer |-> 0]]) :
                    h \in Handles, o \in CommenterOptions }

Comment ==
    /\ probe.fn = "_get_commenter_data" /\ probe.output = <<>>
    /\ probe' = [probe EXCEPT !.output =
                     <<_get_commenter_data(probe.input.self,
                                           probe.input.commenter_options,
                                           probe.input.current)>>]
    /\ UNCHANGED <<system, conc>>

CommenterSpec == CommenterInit /\ [][Comment]_vars

\* One execute_sql call through freshly installed wrappers, made by a caller
\* with or without a current span of its own, as the call-th call made.
ExecuteCalls ==
    { [kwargs |-> k, self |-> h, sql |-> Text(q), context |-> c,
       outcome |-> o, recording |-> r, call |-> n] :
          k \in KwargsSamples, h \in Handles, q \in SqlSamples,
          c \in Contexts, o \in Outcomes, r \in BOOLEAN, n \in 1..2 }

ContextInit ==
    /\ InitSystem /\ conc = NoThreads
    /\ probe \in { Call("execute_sql", x) : x \in ExecuteCalls }

Install ==
    /\ probe.fn = "execute_sql" /\ ~controller.is_instrumented
    /\ controller' = instrument(controller, probe.input.kwargs)
    /\ UNCHANGED <<lifecycle, finished, histogram, usage, nCalls, last, opened, bare, shadow, probe, conc>>

Run ==
    /\ probe.fn = "execute_sql" /\ controller.is_instrumented
    /\ probe.output = <<>>
    /\ probe' = [probe EXCEPT !.output =
          <<CallExecuteSql(controller.table.execute_sql, probe.input.self,
                           [sql |-> probe.input.sql, params |-> None,
                            commit |-> "SENTINEL"],
                           [call |-> probe.input.call,
                            outcome |-> probe.input.outcome,
                            recording |-> probe.input.recording,
                            open |-> TRUE,
                            context |-> probe.input.context])>>]
    /\ UNCHANGED <<system, conc>>

ContextSpec == ContextInit /\ [][Install \/ Run]_vars

\* ------------------------------------------ the wrappers, thread by thread
\* Threads call the installed wrappers of connect and execute_sql (default
\* options, sampled spans) on handles of their own.  An invocation goes
\* through the wrapper in steps: Begin (up to the span being started),
\* Enter (the attributes, inside the span's block), Call (the original and
\* the except/finally blocks), Exit (leaving the span's block).  conc.spans
\* is every span started, with the thread and invocation that started it
\* and those that called a method on it.

Threads == {"t1", "t2"}

ThreadHandles(t) == IF t = "t1" THEN {"h1"} ELSE {"h2", "h3"}

IdleThread ==
    [pc |-> "idle", op |-> "none", self |-> None, span |-> 0,
     exc |-> <<>>, jobs |-> 0,
     executes |-> 0, reached |-> 0, samples |-> 0]

\* The span an invocation works on as if `span` were one variable shared by
\* all invocations: the span started last
SpanRef_Shared(C, t) == Len(C.spans)

\* The span an invocation works on: the local variable `span` of its frame
SpanRef(C, t) == C.threads[t].span

\* Thread t puts its span in the state s: a method was called on it
Touch(C, t, s) ==
    [C EXCEPT !.spans[SpanRef(C, t)] =
        [@ EXCEPT !.span = s,
                  !.touched = @ \cup {<<t, C.threads[t].jobs + 1>>}]]

TheSpan(C, t) == C.spans[SpanRef(C, t)].span

\* An invocation starts its span
Started(C, t, op, self, name) ==
    LET id == Len(C.spans) + 1
        entry == [span |-> start_span(_get_tracer(None),
                                      [call |-> id, layer |-> 0],
                                      name, "CLIENT", TRUE),
                  owner |-> t, job |-> C.threads[t].jobs + 1, touched |-> {},
                  overlaps |-> \E u \in Threads \ {t} :
                                   C.threads[u].pc # "idle"]
    IN  [C EXCEPT !.spans = Append(@, entry),
                  !.threads[t] = [@ EXCEPT !.pc = "entering", !.op = op,
                                           !.self = self, !.span = id,
                                           !.exc = <<>>]]

\* An invocation is over
Finished(C, t, exc) ==
    [C EXCEPT !.threads[t] = [@ EXCEPT !.pc = "idle", !.span = 0,
                                       !.exc = exc, !.jobs = @ + 1]]

\* The invocations made so far, those in progress included
RECURSIVE InvocationsOf(_, _)
InvocationsOf(C, S) ==
    IF S = {} THEN 0
    ELSE LET t == CHOOSE u \in S : TRUE
         IN  C.threads[t].jobs + (IF C.threads[t].pc = "idle" THEN 0 ELSE 1)
             + InvocationsOf(C, S \ {t})

Invocations(C) == InvocationsOf(C, Threads)

\* execute_sql, lines 122-132; connect, lines 197-199
Begin(t, op, self) ==
    /\ conc.threads[t].pc = "idle" /\ Invocations(conc) < MaxJobs
    /\ IF op = "connect"
       THEN conc' = Started(conc, t, op, self, <<<<"connect">>>>)
       ELSE LET C == [conc EXCEPT !.threads[t].executes = @ + 1]
                v == _normalize_vendor(Handle(self).class)
                nm == _get_operation_name(v.value, Handle(self).database,
                                          Text(SqlSelect))
            IN  IF Raised(v) THEN conc' = Finished(C, t, v.exc)
                ELSE IF Raised(nm) THEN conc' = Finished(C, t, nm.exc)
                ELSE conc' = Started(C, t, op, self, nm.value)
    /\ UNCHANGED <<system, probe>>

\* execute_sql, lines 140-145; connect, lines 200-205
Enter(t) ==
    /\ conc.threads[t].pc = "entering"
    /\ LET th == conc.threads[t]
           v == _normalize_vendor(Handle(th.self).class)
           ap == _get_attributes_from_connect_params(
                     Handle(th.self).connect_params)
       IN  IF th.op = "execute_sql"
           THEN conc' = [Touch(conc, t,
                               ExecuteRecordingBlock(
                                   TheSpan(conc, t), v.value, Text(SqlSelect),
                                   ap.attrs \o <<<<"db.name",
                                                   Handle(th.self).database>>>>))
                         EXCEPT !.threads[t].pc = "calling"]
           ELSE LET s2 == set_attributes(is_recording(TheSpan(conc, t)),
                                         ap.attrs)
                IN  IF Raised(v)
                    THEN conc' = [Touch(conc, t, s2) EXCEPT
                                     !.threads[t].pc = "leaving",
                                     !.threads[t].exc = v.exc]
                    ELSE conc' = [Touch(conc, t,
                                        set_attribute(s2, "db.system", v.value))
                                  EXCEPT !.threads[t].pc = "calling"]
    /\ UNCHANGED <<system, probe>>

\* execute_sql, lines 166-185; connect, lines 206-218; outcome is what the
\* original does
Call_(t, outcome) ==
    /\ conc.threads[t].pc = "calling"
    /\ LET th == [op |-> conc.threads[t].op, self |-> conc.threads[t].self,
                  outcome |-> outcome]
           s0 == TheSpan(conc, t)
           s1 == IF th.op = "execute_sql"
                 THEN set_status(is_recording(s0), "OK", <<>>) ELSE s0
           s2 == IF th.outcome # <<>>
                 THEN set_status(record_exception(s1, th.outcome[1]), "ERROR",
                                 StrExc(th.outcome[1]))
                 ELSE s1
           C == [Touch(conc, t, s2) EXCEPT !.threads[t].pc = "leaving",
                                          !.threads[t].exc = th.outcome]
       IN  IF th.op = "execute_sql"
           THEN /\ conc' = [C EXCEPT !.threads[t].reached = @ + 1,
                                     !.threads[t].samples = @ + 1]
                /\ histogram' = histogram + 1
                /\ usage' = usage
           ELSE /\ conc' = C
                /\ histogram' = histogram
                /\ usage' = IF th.outcome = <<>>
                            THEN [usage EXCEPT ![th.self] = @ + 1] ELSE usage
    /\ UNCHANGED <<controller, lifecycle, finished, nCalls, last, opened, bare, shadow, probe>>

\* Leaving `with trace.use_span(span, end_on_exit=True)` (line 140) or
\* `with tracer.start_as_current_span(...)` (line 197)
Exit(t) ==
    /\ conc.threads[t].pc = "leaving"
    /\ LET th == conc.threads[t]
           s == use_span_exit(TheSpan(conc, t), th.exc)
       IN  conc' = Finished(Touch(conc, t, s), t, th.exc)
    /\ UNCHANGED <<system, probe>>

ThreadInit ==
    /\ InitSystem /\ probe = NoProbe
    /\ conc = [threads |-> [t \in Threads |-> IdleThread], spans |-> <<>>]

ThreadNext ==
    \E t \in Threads :
        \/ \E op \in {"connect", "execute_sql"}, self \in ThreadHandles(t) :
               Begin(t, op, self)
        \/ Enter(t)
        \/ \E outcome \in Outcomes : Call_(t, outcome)
        \/ Exit(t)

ThreadSpec == ThreadInit /\ [][ThreadNext]_vars

\* ---------------------------------------------------------- the claims

\* The last call went through the installed wrapper of execute_sql
WrappedExecute == last.op = "execute_sql" /\ last.depth >= 1

\* The last call went through the installed wrapper of connect
WrappedConnect == last.op = "connect" /\ last.depth >= 1

\* The true original operation was invoked by the last call
OriginalReached == last.effect.sent # <<>>

\* ... and raised
OriginalRaised == OriginalReached /\ last.outcome # <<>>

\* The span the outermost wrapper of the last call created: the last to end
LastSpan == last.effect.spans[Len(last.effect.spans)]

Has(seq, x) == \E i \in 1..Len(seq) : seq[i] = x

\* C1: when the original execute raises E on a recording span, the span the
\* call finished has status ERROR with description str(E) and carries E as
\* a recorded exception, although status OK was set on it before the
\* original was invoked.
C1_ErrorStatusAfterRaise ==
    (WrappedExecute /\ OriginalRaised /\ LastSpan.recording) =>
        /\ Has(LastSpan.calls, "set_status")
        /\ LastSpan.status = [code |-> "ERROR",
                              desc |-> StrExc(last.outcome[1])]
        /\ Has(LastSpan.events, last.outcome[1])
        /\ LastSpan.ended

\* C2: when the original execute raises E, the caller receives the same E
\* and exactly one duration sample has been recorded for the call.
C2_SameExceptionOneSample ==
    (WrappedExecute /\ OriginalRaised) =>
        /\ last.effect.exc = last.outcome
        /\ Len(last.effect.samples) = 1

C2_Witness ==
    /\ WrappedExecute /\ OriginalRaised
    /\ last.effect.exc = <<ErrLocked>>
    /\ histogram = 1

\* C3 as claimed: every invocation of the wrapped execute (here: of a SQL
\* text that has a verb) records exactly one duration sample, whatever its
\* exit path, an exit before the original is invoked included.
C3_OneSampleOnEveryExit ==
    (WrappedExecute /\ last.args.sql.body # SqlEmpty) =>
        Len(last.effect.samples) = 1

\* C3 amended: an invocation of the wrapped execute that invokes the original
\* records exactly one duration sample, whether the original returns or
\* raises; an invocation that exits before its span is created (the vendor
\* is not classified, no operation name) records none.
C3_OneSampleOnceOriginalReached ==
    WrappedExecute =>
        /\ OriginalReached => Len(last.effect.samples) = 1
        /\ ~OriginalReached =>
               /\ last.effect.samples = <<>>
               /\ last.effect.spans = <<>>
               /\ Raised(last.effect)

C3_Witness ==
    /\ WrappedExecute /\ ~OriginalReached
    /\ last.effect.exc = <<ValueError>>
    /\ histogram = 0

Ops == {"connect", "execute_sql", "close"}

\* C4: whatever instrument and uninstrument calls were made, each installed
\* operation is the true original or one wrapper around the true original,
\* never a wrapper of a wrapper (one call emits one span and one sample), and
\* the saved originals are the operations as they were before the first
\* instrument.
C4_NeverWrapperOfWrapper ==
    /\ \A op \in Ops : Len(controller.table[op]) <= 1
    /\ controller.originals # <<>> => controller.originals[1] = TrueOriginals
    /\ last.depth <= 1
    /\ (WrappedExecute /\ OriginalReached) =>
           /\ Len(last.effect.spans) = 1
           /\ Len(last.effect.samples) = 1
           /\ Len(last.effect.sent) = 1
    /\ WrappedConnect => Len(last.effect.spans) = 1

\* instrument was called twice in a row, then execute_sql
C4_Witness ==
    /\ lifecycle.last = "instrument" /\ lifecycle.streak = 2
    /\ WrappedExecute /\ OriginalReached
    /\ Len(controller.table.execute_sql) = 1
    /\ histogram = 1

\* C5: after a sequence of lifecycle calls ending with uninstrument (also two
\* in a row) the three operations are the true originals, and the calls
\* made then emit no span, no histogram sample and no counter change.
C5_UninstrumentRestores ==
    lifecycle.last = "uninstrument" =>
        /\ controller.table = TrueOriginals
        /\ ~controller.is_instrumented
        /\ last.op # "none" =>
               /\ last.depth = 0
               /\ last.effect.spans = <<>>
               /\ last.effect.samples = <<>>
               /\ last.effect.usage = <<>>

\* instrument, then uninstrument twice in a row, then execute_sql
C5_Witness ==
    /\ lifecycle.last = "uninstrument" /\ lifecycle.streak = 2
    /\ lifecycle.ever
    /\ last.op = "execute_sql" /\ OriginalReached

\* C6: uninstrument called when instrument was never called does not raise
\* and leaves the three operations unwrapped.
C6_UninstrumentFirstIsNoOp ==
    (lifecycle.last = "uninstrument" /\ ~lifecycle.ever) =>
        /\ controller.exc = <<>>
        /\ controller.table = TrueOriginals
        /\ controller.originals = <<>>

C6_Witness ==
    /\ lifecycle.last = "uninstrument" /\ ~lifecycle.ever
    /\ controller.exc = <<>>

\* The last call finished exactly one span: a CLIENT span of that name
OneSpanNamed(name) ==
    /\ Len(last.effect.spans) = 1
    /\ LastSpan.name = name
    /\ LastSpan.kind = "CLIENT"
    /\ LastSpan.ended
    /\ finished # <<>>
    /\ finished[Len(finished)] = [call |-> nCalls, name |-> name,
                                  kind |-> "CLIENT"]

\* The first token of the SQL samples and the database names of the handles
ExpectedVerb(sql) ==
    CASE sql.body = SqlSelect -> <<"SELECT">>
      [] sql.body = SqlHinted -> <<"UPDATE">>
      [] OTHER -> <<>>

ExpectedDb(self) ==
    CASE self = "h1" -> ":memory:" [] self = "h2" -> "shop" [] OTHER -> "bank"

\* The finished spans are in call order
InCallOrder ==
    /\ \A i \in 1..Len(finished) : finished[i].call \in 1..nCalls
    /\ \A i, j \in 1..Len(finished) :
           i < j => finished[i].call < finished[j].call

C8_NotRecordingNoSetters ==
    (last.depth >= 1 /\ last.effect.spans # <<>> /\ ~LastSpan.recording) =>
        /\ ~Has(LastSpan.calls, "set_attribute")
        /\ ~Has(LastSpan.calls, "set_attributes")
        /\ ~Has(LastSpan.calls, "set_status")
        /\ Has(LastSpan.calls, "is_recording")

\* The options the installed wrappers were given
CommenterGiven == Lookup(lifecycle.kwargs, "enable_commenter") = <<TRUE>>

AttributeCommenterGiven ==
    Lookup(lifecycle.kwargs, "enable_attribute_commenter") = <<TRUE>>

\* The SQL text the true original execute received
SentSql == last.effect.sent[1].args.sql

\* C9: with comment injection enabled the text handed to the original
\* execute is the caller's SQL followed by exactly one structured comment;
\* with it disabled (also when the option is not given) it is the caller's
\* SQL.
C9_OneCommentWhenEnabled ==
    (WrappedExecute /\ OriginalReached) =>
        IF CommenterGiven
        THEN /\ SentSql.body = last.args.sql.body
             /\ Len(SentSql.comments) = 1
        ELSE SentSql = last.args.sql

C9_Witness ==
    /\ WrappedExecute /\ OriginalReached /\ CommenterGiven
    /\ SentSql = [body |-> SqlSelect,
                  comments |-> <<<<<<"db_driver", SqliteDatabase>>,
                                   <<"traceparent", [call |-> 1, layer |-> 0]>>
                                 >>>>]

\* The final value of the span's DB-statement attribute
DbStatement == Lookup(LastSpan.attrs, "db.statement")

\* C10: with comment injection enabled and a recording span, the final
\* DB-statement attribute is the commented text, the text handed to the
\* original, when the attribute-commenter flag is on; it is the caller's
\* text, and only the text handed to the original has the comment, when
\* the flag is off.
C10_StatementAttribute ==
    (WrappedExecute /\ OriginalReached /\ CommenterGiven
         /\ LastSpan.recording) =>
        /\ Len(SentSql.comments) = 1
        /\ IF AttributeCommenterGiven
           THEN DbStatement = <<SentSql>>
           ELSE DbStatement = <<last.args.sql>> /\ SentSql # last.args.sql

C10_Witness ==
    /\ WrappedExecute /\ OriginalReached /\ CommenterGiven
    /\ LastSpan.recording /\ AttributeCommenterGiven
    /\ DbStatement = <<SentSql>>
    /\ Len(SentSql.comments) = 1


\* One addition to the usage counter of the handle's pool, state "used"
UsedAdd(self, value) ==
    [value |-> value,
     attributes |-> <<<<"pool.name", _get_connection_string(self)>>,
                      <<"state", "used">>>>]

C12_CounterIsOpenConnections ==
    ~bare => \A h \in Handles :
                 /\ usage[h] = (IF opened[h] THEN 1 ELSE 0)
                 /\ usage[h] >= 0


\* The handles whose class names a supported vendor
Supported == {"h1", "h2"}

\* C13: with comment injection disabled, a call on a supported handle made
\* through the wrappers passes the original the arguments, returns the value
\* and raises the exception of the same call made on peewee without the
\* instrumentation, and leaves the handle in the same state.
C13_Transparent ==
    (last.depth >= 1 /\ last.self \in Supported /\ ~CommenterGiven) =>
        /\ last.effect.sent = last.plain.sent
        /\ last.effect.value = last.plain.value
        /\ last.effect.exc = last.plain.exc
        /\ opened[last.self] = shadow[last.self]


\* C14: a wrapped connect or execute call on a handle whose class names no
\* supported vendor raises the classification error to the caller and emits
\* nothing: no span, no duration sample, no change of the usage counter.
C14_UnsupportedVendorNoTelemetry ==
    (last.depth >= 1 /\ last.self \notin Supported
         /\ last.op \in {"connect", "execute_sql"}) =>
        /\ last.effect.exc = <<ValueError>>
        /\ last.effect.spans = <<>>
        /\ last.effect.samples = <<>>
        /\ last.effect.usage = <<>>


\* word occurs in name, upper and lower case taken as equal
Occurs(word, name) ==
    \E i \in 1..Len(name) :
        /\ i + Len(word) - 1 <= Len(name)
        /\ \A k \in 1..Len(word) : Lower(name[i + k - 1]) = word[k]

\* C15: the vendor of a class name is "sqlite" when the lower-cased name
\* contains "sqlite", otherwise "mysql" when it contains "mysql", otherwise
\* "postgresql" when it contains "postgresql", whatever else the name
\* contains and wherever; a name containing none of them is not classified:
\* the call raises.
C15_VendorClassification ==
    (probe.fn = "_normalize_vendor" /\ probe.output # <<>>) =>
        LET name == probe.input
            r == probe.output[1]
        IN  IF Occurs(<<"s","q","l","i","t","e">>, name)
            THEN r = [exc |-> <<>>, value |-> "sqlite"]
            ELSE IF Occurs(<<"m","y","s","q","l">>, name)
            THEN r = [exc |-> <<>>, value |-> "mysql"]
            ELSE IF Occurs(<<"p","o","s","t","g","r","e","s","q","l">>, name)
            THEN r = [exc |-> <<>>, value |-> "postgresql"]
            ELSE r.exc = <<ValueError>>

\* "MySQLSqlite" is classified as sqlite
C15_Witness ==
    /\ probe.fn = "_normalize_vendor"
    /\ probe.input = <<"M","y","S","Q","L","S","q","l","i","t","e">>
    /\ probe.output = <<[exc |-> <<>>, value |-> "sqlite"]>>


\* The text after its leading block comment, if it starts with one
AfterLeadingComment(s) ==
    IF Len(s) >= 2 /\ s[1] = "/*" /\ (\E j \in 2..Len(s) : s[j] = "*/")
    THEN LET j == CHOOSE k \in 2..Len(s) :
                     s[k] = "*/" /\ \A m \in 2..(k - 1) : s[m] # "*/"
         IN  SubSeq(s, j + 1, Len(s))
    ELSE s

Blank(x) == x = " " \/ x = "\n"

\* The first whitespace-delimited token of s as <<token>>, <<>> if none
FirstToken(s) ==
    IF \A i \in 1..Len(s) : Blank(s[i]) THEN <<>>
    ELSE LET a == CHOOSE i \in 1..Len(s) :
                     ~Blank(s[i]) /\ \A m \in 1..(i - 1) : Blank(s[m])
             b == CHOOSE i \in a..Len(s) :
                     /\ \A m \in a..i : ~Blank(s[m])
                     /\ i = Len(s) \/ Blank(s[i + 1])
         IN  <<SubSeq(s, a, b)>>

\* C16: _get_operation_name never raises and gives the parts that exist,
\* in this order: the first token of the text after its leading block
\* comment (when sql is a text that has one), the database name (when not
\* empty); when there is neither, the vendor tag alone.
C16_OperationName ==
    (probe.fn = "_get_operation_name" /\ probe.output # <<>>) =>
        LET in == probe.input
            token == IF "body" \in DOMAIN in.sql
                     THEN FirstToken(AfterLeadingComment(in.sql.body))
                     ELSE <<>>
            name == IF in.db_name \in {"", None} THEN <<>>
                    ELSE <<<<in.db_name>>>>
            parts == token \o name
        IN  /\ probe.output[1].exc = <<>>
            /\ probe.output[1].value =
                   (IF parts = <<>> THEN <<<<in.vendor>>>> ELSE parts)


\* C17: a wrapped close call invokes the original close, returns its result
\* or lets its exception through, starts no span and records no sample; it
\* adds exactly -1 to the usage counter (state "used") when the original has
\* returned, and nothing when the original raised.
C17_CloseThenDecrement ==
    (last.op = "close" /\ last.depth >= 1) =>
        /\ Len(last.effect.sent) = 1
        /\ last.effect.sent[1].op = "close"
        /\ last.effect.exc = last.effect.sent[1].exc
        /\ last.effect.value = last.effect.sent[1].value
        /\ last.effect.spans = <<>>
        /\ last.effect.samples = <<>>
        /\ last.effect.usage = (IF last.effect.sent[1].exc = <<>>
                                THEN <<UsedAdd(last.self, -1)>> ELSE <<>>)

\* connect, then close on the same handle: the counter is back at 0
C17_Witness ==
    /\ last.op = "close" /\ last.depth >= 1
    /\ last.effect.value = "True"
    /\ last.effect.usage = <<UsedAdd(last.self, -1)>>
    /\ nCalls = 2 /\ usage[last.self] = 0 /\ ~opened[last.self]
    /\ finished # <<>>


\* Thread t is not inside a wrapper
Idle(t) == conc.threads[t].pc = "idle"

\* Each span was worked on (started, given attributes and status, ended) by
\* the one invocation that started it and by no other; a span not yet ended
\* is the span of an invocation in progress; when no invocation is in
\* progress every span has ended, once.
SpanLifetimes ==
    /\ \A i \in 1..Len(conc.spans) :
           LET e == conc.spans[i]
               th == conc.threads[e.owner]
           IN  /\ e.touched \subseteq {<<e.owner, e.job>>}
               /\ IF e.span.ended
                  THEN /\ th.jobs >= e.job
                       /\ Cardinality({k \in 1..Len(e.span.calls) :
                                          e.span.calls[k] = "end"}) = 1
                  ELSE /\ th.pc # "idle"
                       /\ th.jobs + 1 = e.job
                       /\ th.span = i
    /\ (\A t \in Threads : Idle(t)) =>
           \A i \in 1..Len(conc.spans) : conc.spans[i].span.ended

RECURSIVE SumOver(_, _)
SumOver(f, S) ==
    IF S = {} THEN 0
    ELSE LET x == CHOOSE y \in S : TRUE IN f[x] + SumOver(f, S \ {x})

SamplesOf == [t \in Threads |-> conc.threads[t].samples]

\* C18 as claimed: under any interleaving of the threads' connect and
\* execute invocations the span lifetimes are as above, and every execute
\* invocation a thread has made has contributed exactly one duration sample.
C18_SpansStayInTheirInvocation ==
    /\ SpanLifetimes
    /\ histogram = SumOver(SamplesOf, Threads)
    /\ \A t \in Threads :
           Idle(t) => conc.threads[t].samples = conc.threads[t].executes

\* C18 amended: the span lifetimes are as above, and every execute
\* invocation that started a span has contributed exactly one duration
\* sample; one that failed before (the handle's class names no supported
\* vendor) started no span and contributed none.
C18_SpansStayInTheirInvocationOnceStarted ==
    /\ SpanLifetimes
    /\ histogram = SumOver(SamplesOf, Threads)
    /\ \A t \in Threads :
           Idle(t) => /\ conc.threads[t].samples = conc.threads[t].reached
                      /\ conc.threads[t].reached <= conc.threads[t].executes

\* two invocations overlapped, one left by an exception; all spans ended
C18_Witness ==
    /\ \A t \in Threads : Idle(t) /\ conc.threads[t].jobs >= 1
    /\ histogram = 2
    /\ \E i, j \in 1..Len(conc.spans) :
           /\ conc.spans[i].owner # conc.spans[j].owner
           /\ conc.spans[j].overlaps
           /\ conc.spans[i].span.ended /\ conc.spans[j].span.ended
           /\ conc.spans[i].span.events # <<>>


\* The option of key k is given as b
Given(options, k, b) == \E i \in 1..Len(options) : options[i] = <<k, b>>

\* The members of seq that are in S, in the order of seq
RECURSIVE Among(_, _)
Among(seq, S) ==
    IF seq = <<>> THEN <<>>
    ELSE (IF Head(seq) \in S THEN <<Head(seq)>> ELSE <<>>)
         \o Among(Tail(seq), S)

\* C19: the keys of the commenter data are, in this order, the driver key,
\* the framework key and (unless the option opentelemetry_values is given
\* false) the trace-context key, without the keys whose own option is given
\* false; a key whose option is absent or true is kept.  The driver key
\* holds the handle's class name, the framework key "peewee:<version>".
C19_CommenterKeys ==
    (probe.fn = "_get_commenter_data" /\ probe.output # <<>>) =>
        LET options == probe.input.commenter_options
            data == probe.output[1]
            kept == {k \in {"db_driver", "db_framework", "traceparent"} :
                        /\ ~Given(options, k, FALSE)
                        /\ k = "traceparent" =>
                               ~Given(options, "opentelemetry_values", FALSE)}
        IN  /\ [i \in 1..Len(data) |-> data[i][1]] =
                   Among(<<"db_driver", "db_framework", "traceparent">>, kept)
            /\ \A i \in 1..Len(data) :
                   /\ data[i][1] = "db_driver" =>
                          data[i][2] = Handle(probe.input.self).class
                   /\ data[i][1] = "db_framework" => data[i][2] = "peewee:3"

\* db_framework switched off, the other options absent
C19_Witness ==
    /\ probe.fn = "_get_commenter_data"
    /\ probe.input.commenter_options = <<<<"db_framework", FALSE>>>>
    /\ probe.input.self = "h1"
    /\ probe.output = <<<<<<"db_driver", SqliteDatabase>>,
                          <<"traceparent", [call |-> 1, layer |-> 0]>>>>>>


\* The tags of the duration sample of the last call
SampleTags == last.effect.samples[1].attributes

\* C20: the query-text tag of the duration sample of a wrapped execute call
\* is the SQL text as the caller passed it, whatever the commenter flags and
\* whatever text was handed to the original; the server-address tag is
\* there exactly when the handle's connect params hold a host, and is that
\* host.
C20_DurationTags ==
    (WrappedExecute /\ last.effect.samples # <<>>) =>
        /\ Lookup(SampleTags, "db.query.text") = <<last.args.sql>>
        /\ Lookup(SampleTags, "db.server.address") =
               Lookup(Handle(last.self).connect_params, "host")
        /\ \A i \in 1..Len(SampleTags) :
               SampleTags[i][1] \in {"db.system.name", "db.query.text",
                                     "db.server.address"}

\* both commenter flags on, a handle with a host: the original received the
\* commented text, the sample is tagged with the caller's
C20_Witness ==
    /\ WrappedExecute /\ OriginalReached
    /\ CommenterGiven /\ AttributeCommenterGiven
    /\ last.self = "h2"
    /\ Len(SentSql.comments) = 1
    /\ Lookup(SampleTags, "db.query.text") = <<Text(SqlSelect)>>
    /\ Lookup(SampleTags, "db.server.address") = <<"db.local">>


\* The current-span context after the changes of log were made to context;
\* a detach gives back the context as it was before its attach
RECURSIVE Replay(_, _)
Replay(context, log) ==
    IF log = <<>> THEN context
    ELSE IF Head(log).do = "attach"
    THEN Replay(Append(context, Head(log).span), Tail(log))
    ELSE Replay(SubSeq(context, 1, Len(context) - 1), Tail(log))

\* The options leave the trace-context values in the comment
TraceContextIncluded(kwargs) ==
    LET options == Get(kwargs, "commenter_options", <<>>)
    IN  /\ ~Given(options, "opentelemetry_values", FALSE)
        /\ ~Given(options, "traceparent", FALSE)

\* C21: with comment injection enabled and the trace-context values
\* included, the trace context in the comment of the text the original
\* execute received is that of the span this execute call created: not the
\* caller's current span, not the span of another call; and however the call
\* ends, the caller's current span is afterwards what it was before.
C21_CommentNamesOwnSpan ==
    (probe.fn = "execute_sql" /\ probe.output # <<>>) =>
        LET in == probe.input
            eff == probe.output[1]
        IN  /\ Replay(in.context, eff.ctx) = in.context
            /\ (/\ eff.sent # <<>>
                /\ Lookup(in.kwargs, "enable_commenter") = <<TRUE>>
                /\ TraceContextIncluded(in.kwargs)) =>
                   /\ Len(eff.spans) = 1
                   /\ eff.spans[1].id = [call |-> in.call, layer |-> 0]
                   /\ Len(eff.sent[1].args.sql.comments) = 1
                   /\ Lookup(eff.sent[1].args.sql.comments[1], "traceparent")
                          = <<eff.spans[1].id>>
                   /\ eff.spans[1].id # CallerSpan

\* the caller has a current span of its own, the call is its second, the
\* original raises
C21_Witness ==
    /\ probe.fn = "execute_sql" /\ probe.output # <<>>
    /\ probe.input.context = <<CallerSpan>>
    /\ probe.input.call = 2
    /\ probe.output[1].exc = <<ErrLocked>>
    /\ probe.output[1].sent # <<>>
    /\ Lookup(probe.output[1].sent[1].args.sql.comments[1], "traceparent")
           = <<[call |-> 2, layer |-> 0]>>
    /\ Len(probe.output[1].ctx) = 2

=============================================================================
